---- MODULE Spec2Model ----
(***************************************************************************)
(* Model of edgelet/hsm-sys/build.rs: the cargo build script that fetches  *)
(* the vendored C sources, configures and builds them with cmake           *)
(* (shared-utilities, micro-TPM, Open Enclave SDK, HSM library) and then   *)
(* prints the cargo link directives.                                       *)
(*                                                                         *)
(* Text values that the script transforms or inspects (to_lowercase,       *)
(* starts_with) are sequences of one-character strings; all other text is  *)
(* an opaque TLA+ string.  An environment variable is a record             *)
(* [set, val]: env::var(..).is_ok() is .set and the value is .val.         *)
(***************************************************************************)
EXTENDS Integers, Sequences, FiniteSets, TLC

VARIABLES
    host,             \* "windows" | "unix": which #[cfg(..)] variant is compiled
    debug_assertions, \* #[cfg(debug_assertions)]
    env,              \* the environment variables the script reads more than once
    pc,               \* position of main
    markers,          \* the .git markers as main saw them (lines 147-149)
    fetches,          \* results of the git submodule update commands run
    builds,           \* cmake Config::build() invocations: name, defines, ok
    enclaveCalls,     \* every call of set_enclave_options: inputs and outcome
    linkPlan,         \* cargo:rustc-link-* directives printed so far
    copyAttempts,     \* results of the fs::copy calls of enc.signed.dll
    err               \* panic that ended the process, "" while none

vars == <<host, debug_assertions, env, pc, markers, fetches, builds,
          enclaveCalls, linkPlan, copyAttempts, err>>

----------------------------------------------------------------------------
(* Text helpers *)

UpperChars == <<"A","B","C","D","E","F","G","H","I","J","K","L","M",
                "N","O","P","Q","R","S","T","U","V","W","X","Y","Z">>
LowerChars == <<"a","b","c","d","e","f","g","h","i","j","k","l","m",
                "n","o","p","q","r","s","t","u","v","w","x","y","z">>

ToLowerChar(c) ==
    IF \E i \in 1..Len(UpperChars) : UpperChars[i] = c
    THEN LowerChars[CHOOSE i \in 1..Len(UpperChars) : UpperChars[i] = c]
    ELSE c

\* str::to_lowercase
to_lowercase(s) == [i \in 1..Len(s) |-> ToLowerChar(s[i])]

\* str::starts_with
starts_with(s, p) == Len(s) >= Len(p) /\ SubSeq(s, 1, Len(p)) = p

X86_64 == <<"x","8","6","_","6","4">>
RELEASE == <<"r","e","l","e","a","s","e">>
INTEL_SGX == <<"i","n","t","e","l"," ","s","g","x">>
SGX == <<"s","g","x">>
ARM_TRUSTZONE == <<"a","r","m"," ","t","r","u","s","t","z","o","n","e">>
TZ == <<"t","z">>

SSL_OPTION == "use_openssl"
USE_EMULATOR == "use_emulator"

----------------------------------------------------------------------------
(* Input domains *)

Unset == [set |-> FALSE, val |-> <<>>]
Var(v) == [set |-> TRUE, val |-> v]

TeeStrings ==
    { SGX, <<"S","G","X">>, <<"S","g","x">>,
      INTEL_SGX, <<"I","n","t","e","l"," ","S","G","X">>,
      TZ, <<"T","Z">>,
      ARM_TRUSTZONE, <<"A","R","M"," ","T","r","u","s","t","Z","o","n","e">>,
      <<"p","s","p">>, <<"s","g","x"," ">>, <<>> }

TargetStrings ==
    { <<"x","8","6","_","6","4","-","l","i","n","u","x">>,
      <<"x","8","6","_","6","4">>,
      <<"x","8","6">>,
      <<"a","r","m","v","7","-","l","i","n","u","x">>,
      <<"a","-","x","8","6","_","6","4">> }

ProfileStrings ==
    { RELEASE, <<"R","e","l","e","a","s","e">>, <<"d","e","b","u","g">> }

EmulatorStrings == { "ON", "OFF" }

SysrootStrings == { "/sysroot" }

\* Variables only the Windows variant reads are left unset on a unix build and
\* the other way round: the compiled variant never looks at them.
Envs ==
    { e \in [ USE_ENCLAVE    : {Unset} \cup {Var(s) : s \in TeeStrings},
              USE_SIMULATION : BOOLEAN,
              TARGET         : {Var(s) : s \in TargetStrings},
              RUN_VALGRIND   : BOOLEAN,
              SYSROOT        : {[set |-> FALSE, val |-> ""]}
                                 \cup {[set |-> TRUE, val |-> s] : s \in SysrootStrings},
              USE_EMULATOR   : {[set |-> FALSE, val |-> ""]}
                                 \cup {[set |-> TRUE, val |-> s] : s \in EmulatorStrings},
              PROFILE        : {Var(s) : s \in ProfileStrings} ] : TRUE }

WindowsOnly(e) ==
    /\ e.TARGET = Var(<<"x","8","6","_","6","4">>)
    /\ e.RUN_VALGRIND = FALSE
    /\ e.SYSROOT.set = FALSE

UnixOnly(e) ==
    /\ e.USE_EMULATOR.set = FALSE
    /\ e.PROFILE = Var(RELEASE)

----------------------------------------------------------------------------
(* cmake::Config: the part of the builder the script writes *)

NewConfig(path) ==
    [path |-> path, defines |-> <<>>, cflags |-> <<>>, cxxflags |-> <<>>,
     build_args |-> <<>>, profile |-> ""]

define(c, k, v) == [c EXCEPT !.defines = Append(@, <<k, v>>)]
cflag(c, f) == [c EXCEPT !.cflags = Append(@, f)]
cxxflag(c, f) == [c EXCEPT !.cxxflags = Append(@, f)]
build_arg(c, a) == [c EXCEPT !.build_args = Append(@, a)]
profile(c, p) == [c EXCEPT !.profile = p]

\* A builder step yields the configuration and the panic it ended in, if any.
Ok(c) == [cfg |-> c, panic |-> ""]
Panic(c, msg) == [cfg |-> c, panic |-> msg]

\* A panic ends the chain: the later methods of a builder chain are not run.
Running(r) == r.panic = ""

----------------------------------------------------------------------------
(* Platform Define Resolver *)

PanicUnwrap == "called Result::unwrap() on an Err value"

\* variant: the Windows resolver also pins run_valgrind
set_platform_defines_windows_valgrind(c, e) ==
    LET use_emulator ==
            IF e.USE_EMULATOR.set THEN e.USE_EMULATOR.val
            ELSE IF to_lowercase(e.PROFILE.val) = RELEASE THEN "OFF" ELSE "ON"
    IN  Ok(define(define(define(build_arg(cxxflag(cflag(cxxflag(cflag(c,
                    "/DWIN32"), "/DWIN32"), "/D_WINDOWS"), "/D_WINDOWS"), "/m"),
                    "run_valgrind", "OFF"),
                    USE_EMULATOR, use_emulator),
                    "use_cppunittest", "OFF"))

\* #[cfg(windows)] set_platform_defines
set_platform_defines_windows(c, e) ==
    LET use_emulator ==
            IF e.USE_EMULATOR.set THEN Var(e.USE_EMULATOR.val)
            ELSE IF e.PROFILE.set
                 THEN Var(IF to_lowercase(e.PROFILE.val) = RELEASE
                          THEN "OFF" ELSE "ON")
                 ELSE Unset
    IN  IF ~use_emulator.set THEN Panic(c, PanicUnwrap)
        ELSE Ok(define(define(build_arg(cxxflag(cflag(cxxflag(cflag(c,
                    "/DWIN32"), "/DWIN32"), "/D_WINDOWS"), "/D_WINDOWS"), "/m"),
                    USE_EMULATOR, use_emulator.val),
                    "use_cppunittest", "OFF"))

\* variant: || in place of && in the valgrind test
set_platform_defines_unix_or(c, e) ==
    LET rv == IF starts_with(e.TARGET.val, X86_64) \/ e.RUN_VALGRIND
              THEN "ON" ELSE "OFF"
    IN  IF e.SYSROOT.set
        THEN Ok(define(define(define(c, "run_valgrind", rv),
                    "CMAKE_SYSROOT", e.SYSROOT.val), USE_EMULATOR, "OFF"))
        ELSE Ok(define(define(c, "run_valgrind", rv), USE_EMULATOR, "OFF"))

\* #[cfg(unix)] set_platform_defines
set_platform_defines_unix(c, e) ==
    IF ~e.TARGET.set THEN Panic(c, PanicUnwrap)
    ELSE
    LET rv == IF starts_with(e.TARGET.val, X86_64) /\ e.RUN_VALGRIND
              THEN "ON" ELSE "OFF"
    IN  IF e.SYSROOT.set
        THEN Ok(define(define(define(c, "run_valgrind", rv),
                    "CMAKE_SYSROOT", e.SYSROOT.val), USE_EMULATOR, "OFF"))
        ELSE Ok(define(define(c, "run_valgrind", rv), USE_EMULATOR, "OFF"))

set_platform_defines(r) ==
    IF ~Running(r) THEN r
    ELSE IF host = "windows" THEN set_platform_defines_windows(r.cfg, env)
    ELSE set_platform_defines_unix(r.cfg, env)

\* set_build_shared, #[cfg(debug_assertions)] and #[cfg(not(debug_assertions))]
set_build_shared(r) ==
    IF ~Running(r) THEN r
    ELSE IF debug_assertions THEN Ok(define(r.cfg, "BUILD_SHARED", "OFF"))
    ELSE Ok(define(r.cfg, "BUILD_SHARED", "ON"))

----------------------------------------------------------------------------
(* Enclave Option Resolver *)

PanicWindowsTee ==
    "Building the HSM enclave on Windows is currently only supported for Intel SGX"
PanicTzSimulation ==
    "Simulation builds are not yet supported for ARM TrustZone on Linux"
PanicUnixTee ==
    "Building the HSM enclave on Linux is currently only supported for ARM TrustZone"

TaDevKitAbsPath == "/abs/azure-iot-hsm-c/deps/optee/ta_dev_kit"

\* #[cfg(windows)] set_enclave_options
set_enclave_options_windows(c, e) ==
    IF e.USE_ENCLAVE.set
    THEN LET tee == to_lowercase(e.USE_ENCLAVE.val)
             use_simulation == e.USE_SIMULATION
         IN  IF tee = INTEL_SGX \/ tee = SGX
             THEN LET c1 == define(define(c, "OE_TEE", "SGX"), "use_enclave", "ON")
                  IN  IF use_simulation
                      THEN Ok(define(c1, "OE_USE_SIMULATION", "ON"))
                      ELSE Ok(c1)
             ELSE Panic(c, PanicWindowsTee)
    ELSE Ok(c)

\* variant: the simulation test is missing
set_enclave_options_unix_nosimcheck(c, e, canonical) ==
    IF e.USE_ENCLAVE.set
    THEN LET tee == to_lowercase(e.USE_ENCLAVE.val)
         IN  IF tee = ARM_TRUSTZONE \/ tee = TZ
             THEN IF ~canonical
                  THEN Panic(define(c, "OE_TEE", "TZ"), PanicUnwrap)
                  ELSE Ok(define(define(define(c, "OE_TEE", "TZ"),
                              "TA_DEV_KIT_DIR", TaDevKitAbsPath),
                              "use_enclave", "ON"))
             ELSE Panic(c, PanicUnixTee)
    ELSE Ok(c)

\* #[cfg(unix)] set_enclave_options; canonical says whether fs::canonicalize
\* of the ta_dev_kit path succeeds.  The receiver .define("OE_TEE", "TZ") is
\* evaluated before the argument that unwraps the path.
set_enclave_options_unix(c, e, canonical) ==
    IF e.USE_ENCLAVE.set
    THEN LET tee == to_lowercase(e.USE_ENCLAVE.val)
             use_simulation == e.USE_SIMULATION
         IN  IF tee = ARM_TRUSTZONE \/ tee = TZ
             THEN IF use_simulation THEN Panic(c, PanicTzSimulation)
                  ELSE IF ~canonical
                       THEN Panic(define(c, "OE_TEE", "TZ"), PanicUnwrap)
                       ELSE Ok(define(define(define(c, "OE_TEE", "TZ"),
                                   "TA_DEV_KIT_DIR", TaDevKitAbsPath),
                                   "use_enclave", "ON"))
             ELSE Panic(c, PanicUnixTee)
    ELSE Ok(c)

set_enclave_options(c, canonical) ==
    IF host = "windows" THEN set_enclave_options_windows(c, env)
    ELSE set_enclave_options_unix(c, env, canonical)

----------------------------------------------------------------------------
(* main *)

c_shared_repo == "azure-iot-hsm-c/deps/c-shared"
utpm_repo == "azure-iot-hsm-c/deps/utpm"
oe_repo == "azure-iot-hsm-c/deps/openenclave"
oe_new_platforms == "azure-iot-hsm-c/deps/openenclave/new_platforms"
hsm_dir == "azure-iot-hsm-c"

use_enclave == env.USE_ENCLAVE.set

Init ==
    /\ host \in {"windows", "unix"}
    /\ debug_assertions \in BOOLEAN
    /\ env \in Envs
    /\ IF host = "windows" THEN WindowsOnly(env) ELSE UnixOnly(env)
    /\ pc = "submodules"
    /\ markers = [c_shared |-> TRUE, utpm |-> TRUE, oe |-> TRUE]
    /\ fetches = <<>>
    /\ builds = <<>>
    /\ enclaveCalls = <<>>
    /\ linkPlan = <<>>
    /\ copyAttempts = <<>>
    /\ err = ""

Abort(msg) == pc' = "aborted" /\ err' = msg

\* lines 146-160: the marker test and the git submodule update.  status is
\* "nostart" when the command cannot be spawned, else its exit status.
UpdateSubmodules ==
    /\ pc = "submodules"
    /\ \E m \in [c_shared : BOOLEAN, utpm : BOOLEAN, oe : BOOLEAN] :
         /\ markers' = m
         /\ IF ~m.c_shared \/ ~m.utpm \/ (use_enclave /\ ~m.oe)
            THEN \E status \in {"nostart", "success", "failure"} :
                   /\ fetches' = Append(fetches, status)
                   /\ IF status = "nostart"
                      THEN Abort("submodule update failed")
                      ELSE pc' = "shared" /\ err' = err
            ELSE /\ fetches' = fetches
                 /\ pc' = "shared" /\ err' = err
    /\ UNCHANGED <<host, debug_assertions, env, builds, enclaveCalls,
                   linkPlan, copyAttempts>>

DepDefines(c, rut) ==
    define(define(define(define(define(define(c,
        SSL_OPTION, "ON"),
        "CMAKE_BUILD_TYPE", "Release"),
        "run_unittests", rut),
        "use_default_uuid", "ON"),
        "use_http", "OFF"),
        "skip_samples", "ON")

ValgrindOff(r) ==
    IF ~Running(r) THEN r ELSE Ok(define(r.cfg, "run_valgrind", "OFF"))
ProfileRelease(r) ==
    IF ~Running(r) THEN r ELSE Ok(profile(r.cfg, "Release"))

\* lines 163-172 and 176-185: the configuration of a dependency build
DependencyConfig(path) ==
    ProfileRelease(ValgrindOff(set_platform_defines(
        Ok(DepDefines(NewConfig(path), "OFF")))))

PanicBuild == "NativeBuildFailure"

\* variant: a failed cmake run is not fatal
Build_ignoreFailure(name, r, next) ==
    IF r.panic # ""
    THEN /\ Abort(r.panic)
         /\ builds' = builds
    ELSE \E ok \in BOOLEAN :
           /\ builds' = Append(builds,
                  [name |-> name, path |-> r.cfg.path,
                   defines |-> r.cfg.defines, ok |-> ok])
           /\ pc' = next /\ err' = err

\* Config::build(): runs cmake, panics when cmake fails.
Build(name, r, next) ==
    IF r.panic # ""
    THEN /\ Abort(r.panic)
         /\ builds' = builds
    ELSE \E ok \in BOOLEAN :
           /\ builds' = Append(builds,
                  [name |-> name, path |-> r.cfg.path,
                   defines |-> r.cfg.defines, ok |-> ok])
           /\ IF ok THEN pc' = next /\ err' = err ELSE Abort(PanicBuild)

\* lines 162-173
BuildSharedUtil ==
    /\ pc = "shared"
    /\ Build("shared", DependencyConfig(c_shared_repo), "utpm")
    /\ UNCHANGED <<host, debug_assertions, env, markers, fetches,
                   enclaveCalls, linkPlan, copyAttempts>>

\* lines 175-186
BuildUtpm ==
    /\ pc = "utpm"
    /\ Build("utpm", DependencyConfig(utpm_repo), "oe")
    /\ UNCHANGED <<host, debug_assertions, env, markers, fetches,
                   enclaveCalls, linkPlan, copyAttempts>>

EnclaveCall(site, canonical, r) ==
    [site |-> site, canonical |-> canonical, panic |-> r.panic,
     defines |-> r.cfg.defines]

\* lines 188-222: on unix the two package installs (only a command that
\* cannot be spawned panics), then the Open Enclave SDK build
BuildOpenEnclave ==
    /\ pc = "oe"
    /\ IF ~use_enclave
       THEN /\ pc' = "hsm"
            /\ UNCHANGED <<builds, enclaveCalls, err>>
       ELSE \E apt \in BOOLEAN, pip \in BOOLEAN, canonical \in BOOLEAN :
              IF host = "unix" /\ ~apt
              THEN Abort("apt-get install failed")
                   /\ UNCHANGED <<builds, enclaveCalls>>
              ELSE IF host = "unix" /\ ~pip
              THEN Abort("pip install pycrypto failed")
                   /\ UNCHANGED <<builds, enclaveCalls>>
              ELSE LET r0 == set_enclave_options(NewConfig(oe_new_platforms),
                                                 canonical)
                       r  == ProfileRelease(set_platform_defines(r0))
                   IN  /\ enclaveCalls' =
                              Append(enclaveCalls, EnclaveCall("oe", canonical, r0))
                       /\ Build("oe", r, "hsm")
    /\ UNCHANGED <<host, debug_assertions, env, markers, fetches,
                   linkPlan, copyAttempts>>

\* lines 229-247
BuildHsm ==
    /\ pc = "hsm"
    /\ \E force_no_unittest \in BOOLEAN, canonical \in BOOLEAN :
         LET rut == IF force_no_unittest THEN "OFF" ELSE "ON"
             r0 == set_enclave_options(DepDefines(NewConfig(hsm_dir), rut),
                                       canonical)
             r  == ProfileRelease(set_build_shared(set_platform_defines(r0)))
         IN  /\ enclaveCalls' =
                    Append(enclaveCalls,
                           [EnclaveCall("hsm", canonical, r0) EXCEPT
                              !.defines = SubSeq(@, 7, Len(@))])
             /\ Build("hsm", r, "link")
    /\ UNCHANGED <<host, debug_assertions, env, markers, fetches,
                   linkPlan, copyAttempts>>

Search(path) == [kind |-> "search", name |-> path]
Lib(name) == [kind |-> "lib", name |-> name]

\* the install directory Config::build() returns for the HSM library
iothsm == "out"
OpensslLib == "OPENSSL_ROOT_DIR/lib"
SgxSdkBin == "SGXSDKInstallPath/bin/x64/Release"

\* variant: the library is declared before its search paths
HsmLinks_libFirst ==
    << Lib("iothsm"), Search(iothsm), Search("out/lib"), Search("out/lib64") >>

\* lines 256-260
HsmLinks ==
    << Search(iothsm), Search("out/lib"), Search("out/lib64"), Lib("iothsm") >>

\* variant: the cfg test is inverted
StaticLinks_inverted ==
    IF ~debug_assertions THEN << Lib("aziotsharedutil"), Lib("utpm") >> ELSE << >>

\* lines 264-267, #[cfg(debug_assertions)]
StaticLinks ==
    IF debug_assertions THEN << Lib("aziotsharedutil"), Lib("utpm") >> ELSE << >>

\* lines 269-276
EnclaveLinks ==
    IF use_enclave
    THEN << Lib("oesocket_host"), Lib("oestdio_host"), Lib("oehost") >>
         \o (IF host = "unix" THEN << Lib("teec") >> ELSE << >>)
    ELSE << >>

\* lines 280-285
OpensslLinks == << Search(OpensslLib), Lib("libeay32"), Lib("ssleay32") >>

\* lines 299-301
SgxLinks ==
    << Lib("sgx_urts_sim"), Lib("sgx_uae_service_sim"), Lib("sgx_uprotected_fs") >>

\* variant: the copy is done only for a simulation build
NeedsEnclaveCopy_simulation == use_enclave /\ env.USE_SIMULATION

\* line 292: the guard of the enclave image copy
NeedsEnclaveCopy == use_enclave

\* lines 254-306: every println! takes effect at once, so a panic part of the
\* way leaves the directives printed before it.  openssl and sgxsdk say
\* whether OPENSSL_ROOT_DIR and SGXSDKInstallPath are set, copied whether
\* fs::copy succeeds.
EmitLinkPlan ==
    /\ pc = "link"
    /\ LET common == linkPlan \o HsmLinks \o StaticLinks \o EnclaveLinks
       IN  IF host = "windows"
           THEN \E openssl \in BOOLEAN, sgxsdk \in BOOLEAN, copied \in BOOLEAN :
                  IF ~openssl
                  THEN /\ linkPlan' = common
                       /\ copyAttempts' = copyAttempts
                       /\ Abort(PanicUnwrap)
                  ELSE IF ~sgxsdk
                  THEN /\ linkPlan' = common \o OpensslLinks
                       /\ copyAttempts' = copyAttempts
                       /\ Abort(PanicUnwrap)
                  ELSE IF ~NeedsEnclaveCopy
                  THEN /\ linkPlan' = common \o OpensslLinks \o <<Search(SgxSdkBin)>>
                       /\ copyAttempts' = copyAttempts
                       /\ pc' = "done" /\ err' = err
                  ELSE /\ copyAttempts' = Append(copyAttempts, copied)
                       /\ IF copied
                          THEN /\ linkPlan' = common \o OpensslLinks
                                                \o <<Search(SgxSdkBin)>> \o SgxLinks
                               /\ pc' = "done" /\ err' = err
                          ELSE /\ linkPlan' = common \o OpensslLinks
                                                \o <<Search(SgxSdkBin)>>
                               /\ Abort("Failed to copy enclave to output directory")
           ELSE /\ linkPlan' = common \o << Lib("crypto") >>
                /\ copyAttempts' = copyAttempts
                /\ pc' = "done" /\ err' = err
    /\ UNCHANGED <<host, debug_assertions, env, markers, fetches, builds,
                   enclaveCalls>>

Next ==
    \/ UpdateSubmodules
    \/ BuildSharedUtil
    \/ BuildUtpm
    \/ BuildOpenEnclave
    \/ BuildHsm
    \/ EmitLinkPlan

Spec == Init /\ [][Next]_vars

TypeOK ==
    /\ host \in {"windows", "unix"}
    /\ pc \in {"submodules", "shared", "utpm", "oe", "hsm", "link", "done", "aborted"}
    /\ (pc = "aborted") <=> (err # "")

----------------------------------------------------------------------------
(* Properties *)

Keys(defs) == { defs[i][1] : i \in DOMAIN defs }
Count(defs, k) == Cardinality({ i \in DOMAIN defs : defs[i][1] = k })

\* the value cmake sees for key k: the last -Dk=v on the command line wins
InEffect(defs, k) ==
    IF k \in Keys(defs)
    THEN defs[CHOOSE i \in DOMAIN defs :
                 /\ defs[i][1] = k
                 /\ \A j \in DOMAIN defs : defs[j][1] = k => j <= i][2]
    ELSE "unset"

BuildNames == [ i \in DOMAIN builds |-> builds[i].name ]
Built(name) == \E i \in DOMAIN builds : builds[i].name = name
Succeeded(name) == \E i \in DOMAIN builds : builds[i].name = name /\ builds[i].ok

RequiredBuilds ==
    <<"shared", "utpm">> \o (IF use_enclave THEN <<"oe">> ELSE << >>) \o <<"hsm">>

SameLetter(a, b) ==
    \/ a = b
    \/ \E i \in 1..Len(UpperChars) : {a, b} = {UpperChars[i], LowerChars[i]}

EqIgnoreCase(s, t) ==
    /\ Len(s) = Len(t)
    /\ \A i \in 1..Len(s) : SameLetter(s[i], t[i])

IsSgxName(s) == EqIgnoreCase(s, SGX) \/ EqIgnoreCase(s, INTEL_SGX)
IsTzName(s) == EqIgnoreCase(s, TZ) \/ EqIgnoreCase(s, ARM_TRUSTZONE)

UnsupportedConfiguration == { PanicWindowsTee, PanicTzSimulation, PanicUnixTee }

EnclaveKeys == { "OE_TEE", "use_enclave", "OE_USE_SIMULATION", "TA_DEV_KIT_DIR" }

EnclaveDefinesOf(defs) == SelectSeq(defs, LAMBDA d : d[1] \in EnclaveKeys)

\* C1 (as claimed): when the run ends in the unsupported-configuration error
\* for an invalid TEE / host / simulation pairing, no native build has been
\* started.
C1_UnsupportedBeforeAnyBuild ==
    err \in UnsupportedConfiguration => builds = << >>

\* the defines the claim expects from a successful enclave resolution
C2_ExpectedDefines ==
    IF ~env.USE_ENCLAVE.set THEN << >>
    ELSE IF host = "windows"
    THEN << <<"OE_TEE", "SGX">>, <<"use_enclave", "ON">> >>
         \o (IF env.USE_SIMULATION THEN << <<"OE_USE_SIMULATION", "ON">> >>
             ELSE << >>)
    ELSE << <<"OE_TEE", "TZ">>, <<"TA_DEV_KIT_DIR", TaDevKitAbsPath>>,
            <<"use_enclave", "ON">> >>

C2_Resolves(canonical) ==
    \/ ~env.USE_ENCLAVE.set
    \/ host = "windows" /\ IsSgxName(env.USE_ENCLAVE.val)
    \/ /\ host = "unix" /\ IsTzName(env.USE_ENCLAVE.val)
       /\ ~env.USE_SIMULATION /\ canonical

\* C2: set_enclave_options succeeds exactly when no TEE is requested (no
\* define), for an SGX name on Windows (OE_TEE=SGX, use_enclave=ON, and
\* OE_USE_SIMULATION=ON iff simulation) and for a TrustZone name on unix
\* without simulation and with a resolvable dev-kit path (OE_TEE=TZ,
\* TA_DEV_KIT_DIR, use_enclave=ON); names compare case-insensitively; every
\* other call panics and its configuration is never built, and no build gets
\* an enclave define from anything but a successful call.
C2_EnclaveResolution ==
    /\ \A i \in DOMAIN enclaveCalls :
         LET call == enclaveCalls[i]
         IN  /\ (call.panic = "") <=> C2_Resolves(call.canonical)
             /\ call.panic = "" => call.defines = C2_ExpectedDefines
             /\ call.panic # "" => /\ ~Built(call.site)
                                   /\ pc = "aborted" /\ err = call.panic
    /\ \A i \in DOMAIN builds :
         EnclaveDefinesOf(builds[i].defines) =
             IF builds[i].name \in {"oe", "hsm"} THEN C2_ExpectedDefines ELSE << >>

C2_Witness ==
    /\ pc = "done" /\ host = "unix"
    /\ env.USE_ENCLAVE = Var(<<"T","Z">>)
    /\ Len(enclaveCalls) = 2
    /\ InEffect(builds[4].defines, "OE_TEE") = "TZ"

C3_ResolverValgrind ==
    IF host = "unix" /\ starts_with(env.TARGET.val, X86_64) /\ env.RUN_VALGRIND
    THEN "ON" ELSE "OFF"

\* C3 (as claimed): every build configured through set_platform_defines has
\* run_valgrind ON iff unix, TARGET starts with x86_64 and RUN_VALGRIND is
\* set, and OFF otherwise.
C3_ValgrindAsClaimed ==
    \A i \in DOMAIN builds :
        InEffect(builds[i].defines, "run_valgrind") = C3_ResolverValgrind

\* C3 (amended): the shared-utilities and micro-TPM builds always run with
\* run_valgrind OFF; the Open Enclave SDK and HSM library builds on unix get
\* ON iff TARGET starts with x86_64 and RUN_VALGRIND is set, else OFF, and on
\* Windows get no run_valgrind define at all.
C3_ValgrindInEffect ==
    \A i \in DOMAIN builds :
        InEffect(builds[i].defines, "run_valgrind") =
            IF builds[i].name \in {"shared", "utpm"} THEN "OFF"
            ELSE IF host = "unix" THEN C3_ResolverValgrind
            ELSE "unset"

C3_Witness ==
    /\ pc = "done" /\ host = "unix" /\ env.RUN_VALGRIND
    /\ env.TARGET.val # X86_64 /\ starts_with(env.TARGET.val, X86_64)
    /\ InEffect(builds[1].defines, "run_valgrind") = "OFF"
    /\ InEffect(builds[Len(builds)].defines, "run_valgrind") = "ON"

\* C4: the build steps are invoked in the order shared-utilities, micro-TPM,
\* Open Enclave SDK (only with a TEE requested), HSM library; a step is
\* invoked only after every earlier one succeeded, and a failed step is the
\* last one of the run, which is aborted.
C4_BuildOrder ==
    /\ Len(builds) <= Len(RequiredBuilds)
    /\ BuildNames = SubSeq(RequiredBuilds, 1, Len(builds))
    /\ \A i \in DOMAIN builds :
         ~builds[i].ok => i = Len(builds) /\ pc = "aborted" /\ err = PanicBuild
    /\ Built("hsm") =>
         \A i \in 1..(Len(RequiredBuilds) - 1) : Succeeded(RequiredBuilds[i])

C4_Witness ==
    /\ use_enclave /\ Len(builds) = 4
    /\ builds[4].name = "hsm" /\ ~builds[4].ok
    /\ pc = "aborted"

\* C5: a link directive has been emitted only if every build the run
\* requires was invoked and succeeded; once a required build failed or was
\* skipped by an abort, the link plan is empty.
C5_LinkOnlyAfterBuilds ==
    /\ linkPlan # << >> =>
         \A i \in DOMAIN RequiredBuilds : Succeeded(RequiredBuilds[i])
    /\ (pc = "aborted" /\ \E i \in DOMAIN RequiredBuilds :
                             ~Succeeded(RequiredBuilds[i]))
         => linkPlan = << >>

C5_Witness ==
    /\ linkPlan # << >> /\ use_enclave /\ Len(builds) = 4
    /\ pc = "aborted"

FetchNeeded ==
    ~markers.c_shared \/ ~markers.utpm \/ (use_enclave /\ ~markers.oe)

\* C6 (as claimed): with a required marker missing exactly one fetch is run,
\* with all present none, and a fetch that could not be started or that ended
\* with a non-success result ends the process before any build.
C6_FetchFailureFatal ==
    /\ pc # "submodules" =>
         Len(fetches) = (IF FetchNeeded THEN 1 ELSE 0)
    /\ (\E i \in DOMAIN fetches : fetches[i] # "success") =>
         builds = << >> /\ pc = "aborted"

\* C7 (as claimed): no define key is set twice within the configuration of
\* one build.
C7_NoKeyTwice ==
    \A i \in DOMAIN builds :
        \A k \in Keys(builds[i].defines) : Count(builds[i].defines, k) = 1

\* C7 (amended): the only key set twice is run_valgrind, in the
\* shared-utilities and micro-TPM configurations on unix, where
\* set_platform_defines sets it and main overwrites it with OFF without any
\* error; every other key of every configuration is set once.
C7_OnlyValgrindTwice ==
    \A i \in DOMAIN builds :
        \A k \in Keys(builds[i].defines) :
            Count(builds[i].defines, k) =
                IF /\ k = "run_valgrind" /\ host = "unix"
                   /\ builds[i].name \in {"shared", "utpm"}
                THEN 2 ELSE 1

C7_Witness ==
    /\ pc = "done" /\ host = "unix" /\ env.SYSROOT.set /\ use_enclave
    /\ Count(builds[2].defines, "run_valgrind") = 2
    /\ builds[2].defines[7] = <<"run_valgrind", "ON">>
    /\ InEffect(builds[2].defines, "run_valgrind") = "OFF"

DirIndex(d) ==
    IF \E i \in DOMAIN linkPlan : linkPlan[i] = d
    THEN CHOOSE i \in DOMAIN linkPlan :
            linkPlan[i] = d /\ \A j \in DOMAIN linkPlan : linkPlan[j] = d => i <= j
    ELSE 0

\* the search paths a library is found under
C8_ResolvesAgainst(lib) ==
    IF lib \in {"iothsm", "aziotsharedutil", "utpm",
                "oesocket_host", "oestdio_host", "oehost"}
    THEN { "out", "out/lib", "out/lib64" }
    ELSE IF lib \in {"libeay32", "ssleay32"} THEN { OpensslLib }
    ELSE IF lib \in {"sgx_urts_sim", "sgx_uae_service_sim", "sgx_uprotected_fs"}
    THEN { SgxSdkBin }
    ELSE { }

\* 1 HSM search paths, 2 iothsm, 3 static dependencies, 4 TEE host runtime,
\* 5 host-OS section
C8_Group(d) ==
    IF d.kind = "search" /\ d.name \in {"out", "out/lib", "out/lib64"} THEN 1
    ELSE IF d = Lib("iothsm") THEN 2
    ELSE IF d \in {Lib("aziotsharedutil"), Lib("utpm")} THEN 3
    ELSE IF d \in {Lib("oesocket_host"), Lib("oestdio_host"), Lib("oehost"),
                   Lib("teec")} THEN 4
    ELSE 5

\* C8: in the link plan of a successful run every search path comes before
\* each library that resolves against it, the directives come in the order
\* HSM dir, lib, lib64; iothsm; aziotsharedutil, utpm; TEE host-runtime
\* libraries; host-OS libraries, and nothing is declared twice.
C8_LinkOrder ==
    pc = "done" =>
      /\ SubSeq(linkPlan, 1, 4) = << Search("out"), Search("out/lib"),
                                     Search("out/lib64"), Lib("iothsm") >>
      /\ \A i, j \in DOMAIN linkPlan :
           i < j => /\ C8_Group(linkPlan[i]) <= C8_Group(linkPlan[j])
                    /\ linkPlan[i] # linkPlan[j]
      /\ DirIndex(Lib("aziotsharedutil")) <= DirIndex(Lib("utpm"))
      /\ \A i \in DOMAIN linkPlan :
           linkPlan[i].kind = "lib" =>
             \A p \in C8_ResolvesAgainst(linkPlan[i].name) :
                 DirIndex(Search(p)) \in 1..(i - 1)
      /\ C8_Group(linkPlan[Len(linkPlan)]) = 5

C8_Witness ==
    /\ pc = "done" /\ host = "windows" /\ use_enclave /\ debug_assertions
    /\ Len(linkPlan) = 16

CopyCondition == host = "windows" /\ use_enclave

InPlan(d) == \E i \in DOMAIN linkPlan : linkPlan[i] = d

\* C10: the HSM library build gets BUILD_SHARED=OFF exactly in a debug build
\* and ON otherwise; the link plan names aziotsharedutil and utpm iff the HSM
\* library build got BUILD_SHARED=OFF, and names iothsm in both cases.
C10_LinkageConsistent ==
    /\ \A i \in DOMAIN builds :
         builds[i].name = "hsm" =>
            /\ Count(builds[i].defines, "BUILD_SHARED") = 1
            /\ InEffect(builds[i].defines, "BUILD_SHARED") =
                   (IF debug_assertions THEN "OFF" ELSE "ON")
    /\ linkPlan # << >> =>
         LET static == InEffect(builds[Len(builds)].defines, "BUILD_SHARED") = "OFF"
         IN  /\ InPlan(Lib("iothsm"))
             /\ InPlan(Lib("aziotsharedutil")) <=> static
             /\ InPlan(Lib("utpm")) <=> static

C10_Witness ==
    /\ pc = "done" /\ ~debug_assertions
    /\ InEffect(builds[Len(builds)].defines, "BUILD_SHARED") = "ON"
    /\ ~InPlan(Lib("utpm"))

====
